---- MODULE Spec2Model ----
(***************************************************************************)
(* Model of the calendar display: the event timeline (CalendarService and  *)
(* CalendarDisplayWindow) and the notification scheduler (the service      *)
(* NotificationManager, the UI NotificationManager and NotificationWidget).*)
(* Times are whole seconds since local midnight of the displayed day.      *)
(***************************************************************************)
EXTENDS Integers, Sequences, FiniteSets, TLC

\* ------------------------------------------------------------------------
\* Program constants
\* ------------------------------------------------------------------------
MAX_EVENTS_DISPLAY == 5
WARNING_MINUTES == 10
DefaultDuration == 3600
StartWindow == 60
CheckInterval == 30
DedupCeiling == 100
NOTIFICATION_TIMEOUT == 30
AutoDismissTimeout == 30
\* TIMEZONE: the offset of the target zone from UTC (no change of offset
\* happens within the days modelled)
TzOffset == -18000
Day == 24 * DefaultDuration

\* ------------------------------------------------------------------------
\* Bounds of the model
\* ------------------------------------------------------------------------
\* number of rule-check intervals the clock may advance
MaxTicks == 3
\* number of calendars whose fetch may fail in one refresh
MaxFailing == 1
\* largest instant of the inputs drawn for the status function
MaxT == 4
\* largest warning lead drawn below the configured one (minutes)
MaxWarn == 2
\* latest start of the event drawn for the rule engine (seconds)
MaxStart == 760
\* how long after the start of that event the scans go on (seconds)
MaxAfter == 90

\* latest date of the raw records drawn for the normalizer (days)
MaxDay == 1
\* latest clock reading of those records, in steps of six hours
MaxClock == 4

\* latest instant at which the Timeline queries are called (seconds)
MaxQueryNow == 160
\* longest time between the two clock readings of one query (seconds)
MaxDrift == 2

\* largest focus length, break length (minutes) and number of rounds
\* drawn for a Pomodoro session
MaxFocus == 2
MaxBreak == 1
MaxRounds == 2

MaxNow == MaxTicks * CheckInterval
ClockStep == 6 * DefaultDuration

None == [id |-> 0, type |-> "none"]

\* ------------------------------------------------------------------------
\* Calendar Gateway: the calendars and the raw records of the day window
\* ------------------------------------------------------------------------
Calendars == <<"work", "home">>

RawEvents(c) ==
  IF c = "work"
  THEN << [id |-> 1, start_kind |-> "dateTime", start |-> 60,
           end_kind |-> "dateTime", end |-> 120,
           aware |-> TRUE, off |-> TzOffset],
          [id |-> 2, start_kind |-> "dateTime", start |-> 720,
           end_kind |-> "empty", end |-> 0,
           aware |-> TRUE, off |-> TzOffset],
          [id |-> 6, start_kind |-> "dateTime", start |-> 3000,
           end_kind |-> "dateTime", end |-> 3600,
           aware |-> TRUE, off |-> TzOffset],
          [id |-> 7, start_kind |-> "dateTime", start |-> 3200,
           end_kind |-> "dateTime", end |-> 3600,
           aware |-> TRUE, off |-> TzOffset] >>
  ELSE << [id |-> 3, start_kind |-> "dateTime", start |-> 30,
           end_kind |-> "dateTime", end |-> 60,
           aware |-> TRUE, off |-> TzOffset],
          [id |-> 4, start_kind |-> "missing", start |-> 0,
           end_kind |-> "dateTime", end |-> 30,
           aware |-> TRUE, off |-> TzOffset],
          [id |-> 5, start_kind |-> "dateTime", start |-> 150,
           end_kind |-> "dateTime", end |-> 180,
           aware |-> TRUE, off |-> TzOffset],
          [id |-> 9, start_kind |-> "garbage", start |-> 0,
           end_kind |-> "dateTime", end |-> 240,
           aware |-> TRUE, off |-> TzOffset],
          [id |-> 8, start_kind |-> "dateTime", start |-> 3000,
           end_kind |-> "dateTime", end |-> 3300,
           aware |-> TRUE, off |-> TzOffset],
          [id |-> 10, start_kind |-> "dateTime", start |-> 3100,
           end_kind |-> "dateTime", end |-> 3300,
           aware |-> TRUE, off |-> TzOffset] >>

\* what the gateway answers to one refresh: whether the service object can
\* be built, whether the calendar list can be fetched, and per calendar
\* whether the event list arrives ("ok"), fails with an HttpError ("http")
\* or fails with any other exception ("error", e.g. a socket timeout)
AllOk == [service |-> "ok", list |-> "ok", work |-> "ok", home |-> "ok"]

CalOutcomes == {"ok", "http", "error"}

Failing(g) == (IF g.work = "ok" THEN 0 ELSE 1) + (IF g.home = "ok" THEN 0 ELSE 1)

GatewayResponses ==
  { [AllOk EXCEPT !.service = "none"], [AllOk EXCEPT !.list = "fail"] }
  \cup { g \in { [AllOk EXCEPT !.work = w, !.home = h] :
                   w \in CalOutcomes, h \in CalOutcomes } :
           Failing(g) <= MaxFailing }

CalStatus(g, c) == IF c = "work" THEN g.work ELSE g.home

\* ------------------------------------------------------------------------
\* Status derivation: the three places that compute it
\* ------------------------------------------------------------------------
\* variant with the end bound exclusive
get_event_status_exclusive_end(t, start_dt, end_dt) ==
  IF t < start_dt THEN "upcoming"
  ELSE IF start_dt <= t /\ t < end_dt THEN "current"
  ELSE "past"

\* CalendarService._get_event_status
_get_event_status(t, start_dt, end_dt) ==
  IF t < start_dt THEN "upcoming"
  ELSE IF start_dt <= t /\ t <= end_dt THEN "current"
  ELSE "past"

\* the loop body of CalendarDisplayWindow.update_event_statuses
window_status(t, start_time, end_time) ==
  IF t < start_time THEN "upcoming"
  ELSE IF start_time <= t /\ t <= end_time THEN "current"
  ELSE "past"

\* EventWidget.get_current_status
get_current_status(t, start_time, end_time) ==
  IF t < start_time THEN "upcoming"
  ELSE IF start_time <= t /\ t <= end_time THEN "current"
  ELSE "past"

\* ------------------------------------------------------------------------
\* Event Normalizer: CalendarService._process_event
\* ------------------------------------------------------------------------
\* A raw record: start_kind is "dateTime" (start is the clock reading of the
\* text, aware says whether the text carries an offset, off is that
\* offset), "date" (start is the number of the day), "missing" (no start
\* key, or neither dateTime nor date under it) or "garbage" (a text that
\* does not parse). end_kind is "dateTime", "date", "empty" (an end with
\* neither key), "absent" (no end key) or "garbage" (a text with a 'T'
\* that does not parse).
NoClock == [hour |-> 0, minute |-> 0, pm |-> FALSE]
NoLabel == [kind |-> "none", from |-> NoClock, to |-> NoClock]

Discard == [id |-> 0, start_datetime |-> 0, end_datetime |-> 0,
            is_all_day |-> FALSE, calendar_name |-> "", status |-> "none",
            formatted_time |-> NoLabel]

\* datetime.fromisoformat(...), then timezone.localize for a text without
\* offset and astimezone(self.timezone) for a text with one
to_timezone(clock, aware, off) ==
  IF aware THEN clock - off + TzOffset ELSE clock

\* datetime.strptime(start, '%Y-%m-%d'), then timezone.localize
strptime_localize(day) == day * Day

\* strftime("%I:%M %p"): minutes of the 12-hour clock, and AM or PM
strftime(dt) ==
  LET secs == dt % Day
      h == secs \div DefaultDuration
  IN [hour |-> ((h + 11) % 12) + 1, minute |-> (secs % DefaultDuration) \div 60,
      pm |-> (h >= 12)]

\* CalendarService._format_event_time
_format_event_time(start_dt, end_dt, is_all_day) ==
  IF is_all_day THEN [kind |-> "All Day", from |-> NoClock, to |-> NoClock]
  ELSE IF start_dt \div Day = end_dt \div Day
       THEN [kind |-> "range", from |-> strftime(start_dt),
             to |-> strftime(end_dt)]
       ELSE [kind |-> "start", from |-> strftime(start_dt), to |-> NoClock]

_process_event(raw, calendar, t) ==
  IF raw.start_kind \in {"missing", "garbage"} THEN Discard
  ELSE IF raw.end_kind \in {"absent", "garbage"} THEN Discard
  ELSE
    LET start_dt == IF raw.start_kind = "dateTime"
                    THEN to_timezone(raw.start, raw.aware, raw.off)
                    ELSE strptime_localize(raw.start)
        is_all_day == (raw.start_kind = "date")
        end_dt == IF raw.end_kind = "dateTime"
                  THEN to_timezone(raw.end, raw.aware, raw.off)
                  ELSE start_dt + DefaultDuration
    IN [id |-> raw.id, start_datetime |-> start_dt, end_datetime |-> end_dt,
        is_all_day |-> is_all_day, calendar_name |-> calendar,
        status |-> _get_event_status(t, start_dt, end_dt),
        formatted_time |-> _format_event_time(start_dt, end_dt, is_all_day)]

\* ------------------------------------------------------------------------
\* Sequence helpers
\* ------------------------------------------------------------------------
Take(s, n) == SubSeq(s, 1, IF Len(s) < n THEN Len(s) ELSE n)

\* variant that leaves the list in the order the calendars were read
unsorted(s) == s

\* list.sort(key=start_datetime): stable, ascending
RECURSIVE SortByStart(_)
SortByStart(s) ==
  IF Len(s) <= 1 THEN s
  ELSE LET rest == SortByStart(SubSeq(s, 1, Len(s) - 1))
           e == s[Len(s)]
           k == Cardinality({i \in 1..Len(rest) :
                               rest[i].start_datetime <= e.start_datetime})
       IN SubSeq(rest, 1, k) \o <<e>> \o SubSeq(rest, k + 1, Len(rest))

\* variant in which a discarded record ends the batch of its calendar
RECURSIVE ProcessAll_until_discard(_, _, _)
ProcessAll_until_discard(raws, calendar, t) ==
  IF raws = << >> THEN << >>
  ELSE LET p == _process_event(Head(raws), calendar, t)
       IN IF p = Discard THEN << >>
          ELSE <<p>> \o ProcessAll_until_discard(Tail(raws), calendar, t)

\* the records of one calendar that normalize, in the order returned
RECURSIVE ProcessAll(_, _, _)
ProcessAll(raws, calendar, t) ==
  IF raws = << >> THEN << >>
  ELSE LET p == _process_event(Head(raws), calendar, t)
       IN (IF p = Discard THEN << >> ELSE <<p>>)
            \o ProcessAll(Tail(raws), calendar, t)

\* ------------------------------------------------------------------------
\* Refresh protocol: CalendarService.get_today_events
\* ------------------------------------------------------------------------
\* service.events().list(...).execute() for one calendar: the day's records
\* in start order, capped server-side at maxResults
FetchCalendar(c) == Take(RawEvents(c), MAX_EVENTS_DISPLAY)

\* GoogleCalendarAuth.get_calendar_list: every failure is turned into []
get_calendar_list(g) == IF g.list = "ok" THEN Calendars ELSE << >>

\* the loop over the calendars: an HttpError skips the calendar, any other
\* exception leaves the loop and reaches the outer handler
RECURSIVE FetchLoop(_, _, _)
FetchLoop(cals, g, t) ==
  IF cals = << >> THEN [aborted |-> FALSE, all |-> << >>]
  ELSE LET c == Head(cals)
       IN IF CalStatus(g, c) = "error"
          THEN [aborted |-> TRUE, all |-> << >>]
          ELSE LET r == FetchLoop(Tail(cals), g, t)
                   got == IF CalStatus(g, c) = "http" THEN << >>
                          ELSE ProcessAll(FetchCalendar(c), c, t)
               IN [aborted |-> r.aborted, all |-> got \o r.all]

\* variant that empties the Timeline when the call fails
get_today_events_clearing(evs, upd, g, t) ==
  IF g.service # "ok"
  THEN [events |-> << >>, last_update |-> upd, ret |-> << >>,
        raised |-> FALSE]
  ELSE LET r == FetchLoop(get_calendar_list(g), g, t)
       IN IF r.aborted
          THEN [events |-> << >>, last_update |-> upd, ret |-> << >>,
                raised |-> FALSE]
          ELSE LET new == Take(SortByStart(r.all), MAX_EVENTS_DISPLAY)
               IN [events |-> new, last_update |-> t, ret |-> new,
                   raised |-> FALSE]

\* the result of one call: the new self.events and self.last_update, the
\* returned list, and whether an exception left the call
get_today_events(evs, upd, g, t) ==
  IF g.service # "ok"
  THEN [events |-> evs, last_update |-> upd, ret |-> << >>, raised |-> FALSE]
  ELSE LET r == FetchLoop(get_calendar_list(g), g, t)
       IN IF r.aborted
          THEN [events |-> evs, last_update |-> upd, ret |-> << >>,
                raised |-> FALSE]
          ELSE LET new == Take(SortByStart(r.all), MAX_EVENTS_DISPLAY)
               IN [events |-> new, last_update |-> t, ret |-> new,
                   raised |-> FALSE]

\* ------------------------------------------------------------------------
\* Timeline queries
\* ------------------------------------------------------------------------
\* the None a query returns when it finds no event
NoEvent == Discard

\* the loop of a query: the first event of the list among those at the
\* positions hits (the positions whose event satisfies the test of the loop)
FirstEvent(evs, hits) ==
  IF hits # {}
  THEN evs[CHOOSE i \in hits : \A j \in hits : i <= j]
  ELSE NoEvent

\* CalendarService.get_current_event at instant t
get_current_event(evs, t) ==
  FirstEvent(evs, {i \in 1..Len(evs) :
                     evs[i].start_datetime <= t /\ t <= evs[i].end_datetime})

\* EventListWidget.get_current_event_widget: the widgets are in the order
\* of the displayed list, is_current_event reads the stored status
get_current_event_widget(evs) ==
  FirstEvent(evs, {i \in 1..Len(evs) : evs[i].status = "current"})

\* variant that takes an event that starts at the instant of the call as next
get_next_event_inclusive(evs, t) ==
  FirstEvent(evs, {i \in 1..Len(evs) : evs[i].start_datetime >= t})

\* CalendarService.get_next_event at instant t
get_next_event(evs, t) ==
  FirstEvent(evs, {i \in 1..Len(evs) : evs[i].start_datetime > t})

\* the result of get_time_until_next_event when there is no next event
NoMinutes == -1

\* int(x / 60): the quotient truncated toward zero
int_div_60(secs) ==
  IF secs >= 0 THEN secs \div 60 ELSE 0 - ((0 - secs) \div 60)

\* CalendarService.get_time_until_next_event: get_next_event reads the
\* clock at t, the difference is taken from a second reading t2
get_time_until_next_event(evs, t, t2) ==
  LET next_event == get_next_event(evs, t)
  IN IF next_event = NoEvent THEN NoMinutes
     ELSE int_div_60(next_event.start_datetime - t2)

\* ------------------------------------------------------------------------
\* Notification Rule Engine: CalendarService.get_events_needing_notification
\* ------------------------------------------------------------------------
\* variant whose start window excludes its upper bound
NotificationFor_open_start(e, t, warning_minutes) ==
  LET time_to_start == e.start_datetime - t
  IN IF e.status = "past" THEN "none"
     ELSE IF 0 <= time_to_start /\ time_to_start < StartWindow THEN "start"
     ELSE IF (warning_minutes * 60 - 60) <= time_to_start
             /\ time_to_start <= (warning_minutes * 60 + 60) THEN "warning"
     ELSE "none"

\* variant whose warning window excludes its lower bound
NotificationFor_open_warning(e, t, warning_minutes) ==
  LET time_to_start == e.start_datetime - t
  IN IF e.status = "past" THEN "none"
     ELSE IF 0 <= time_to_start /\ time_to_start <= StartWindow THEN "start"
     ELSE IF (warning_minutes * 60 - 60) < time_to_start
             /\ time_to_start <= (warning_minutes * 60 + 60) THEN "warning"
     ELSE "none"

\* variant whose warning window is 20 seconds wide
NotificationFor_narrow(e, t, warning_minutes) ==
  LET time_to_start == e.start_datetime - t
  IN IF e.status = "past" THEN "none"
     ELSE IF 0 <= time_to_start /\ time_to_start <= StartWindow THEN "start"
     ELSE IF (warning_minutes * 60 - 10) <= time_to_start
             /\ time_to_start <= (warning_minutes * 60 + 10) THEN "warning"
     ELSE "none"

NotificationFor(e, t, warning_minutes) ==
  LET time_to_start == e.start_datetime - t
  IN IF e.status = "past" THEN "none"
     ELSE IF 0 <= time_to_start /\ time_to_start <= StartWindow THEN "start"
     ELSE IF (warning_minutes * 60 - 60) <= time_to_start
             /\ time_to_start <= (warning_minutes * 60 + 60) THEN "warning"
     ELSE "none"

RECURSIVE get_events_needing_notification(_, _, _)
get_events_needing_notification(evs, t, warning_minutes) ==
  IF evs = << >> THEN << >>
  ELSE LET k == NotificationFor(Head(evs), t, warning_minutes)
       IN (IF k = "none" THEN << >> ELSE << [id |-> Head(evs).id, type |-> k] >>)
            \o get_events_needing_notification(Tail(evs), t, warning_minutes)

\* ------------------------------------------------------------------------
\* Notification scheduler.  The handlers call each other synchronously
\* (direct signal connections on one thread), so each is an operator on the
\* record S of the scheduler's fields:
\*   current_notification, dismiss_timer     service NotificationManager
\*   notification_queue, ui_current          UI NotificationManager
\*   widget_event, visible, opacity, auto_dismiss_timer, fade_in, fade_out
\*                                           NotificationWidget
\*   calls    the signals and Presenter calls made by the running handler
\*   t        the Clock at the time the handler runs
\* A single-shot timer is [active, since]: whether it is running and the
\* instant it was started at.
\* opacity is 0 for 0.0 and 1 for any positive value; fade_in is TRUE from
\* the start of the fade-in animation to its first frame.
\* ------------------------------------------------------------------------
\* one entry of the call log, with the state the call was made in: whether
\* the service held a current record, whether the widget's alert was still
\* undismissed (its timer running), and whether the widget was showing
Stopped == [active |-> FALSE, since |-> 0]

Started(t) == [active |-> TRUE, since |-> t]

Call(what, r, S) ==
  [what |-> what, rec |-> r,
   cur |-> S.current_notification # None,
   active |-> S.auto_dismiss_timer.active,
   showing |-> S.visible /\ S.opacity > 0]

\* NotificationWidget.is_showing
is_showing(S) == S.visible /\ S.opacity > 0

\* variant that does not start the widget's auto-dismiss timer
widget_show_without_timer(S, r) ==
  [S EXCEPT !.widget_event = r,
            !.visible = TRUE,
            !.opacity = IF S.fade_in THEN @ ELSE 0,
            !.fade_in = TRUE,
            !.calls = Append(@, Call("widget.show_notification", r, S))]

\* NotificationWidget.show_notification; starting a stopped animation
\* writes its start value (0.0) at once
widget_show_notification(S, r) ==
  [S EXCEPT !.widget_event = r,
            !.visible = TRUE,
            !.opacity = IF S.fade_in THEN @ ELSE 0,
            !.fade_in = TRUE,
            !.auto_dismiss_timer = Started(S.t),
            !.calls = Append(@, Call("widget.show_notification", r, S))]

\* UI NotificationManager.on_notification_dismissed
on_notification_dismissed(S) == [S EXCEPT !.ui_current = None]

\* the fade-out animation is started (start value 1.0) and the dismissed
\* signal is emitted
FadeOutAndEmit(S) ==
  on_notification_dismissed(
    [S EXCEPT !.opacity = IF S.fade_out THEN @ ELSE 1,
              !.fade_out = TRUE,
              !.calls = Append(@, Call("widget.dismissed", S.widget_event, S))])

\* NotificationWidget.dismiss
widget_dismiss(S) == FadeOutAndEmit([S EXCEPT !.auto_dismiss_timer = Stopped])

\* NotificationWidget.auto_dismiss (its single-shot timer has just fired)
widget_auto_dismiss(S) == FadeOutAndEmit(S)

InQueue(q, r) == \E i \in 1..Len(q) : q[i].id = r.id /\ q[i].type = r.type

\* variant that queues without looking for an equal record in the queue
ui_show_always_queue(S, r) ==
  IF is_showing(S)
  THEN [S EXCEPT !.notification_queue = Append(@, r),
                 !.calls = Append(@, Call("queued", r, S))]
  ELSE widget_show_notification([S EXCEPT !.ui_current = r], r)

\* UI NotificationManager.show_notification
ui_show_notification(S, r) ==
  IF is_showing(S)
  THEN IF InQueue(S.notification_queue, r) THEN S
       ELSE [S EXCEPT !.notification_queue = Append(@, r),
                      !.calls = Append(@, Call("queued", r, S))]
  ELSE widget_show_notification([S EXCEPT !.ui_current = r], r)

\* UI NotificationManager.process_queue
process_queue(S) ==
  IF ~is_showing(S) /\ S.notification_queue # << >>
  THEN LET next_notification == Head(S.notification_queue)
       IN widget_show_notification(
            [S EXCEPT !.notification_queue = Tail(@),
                      !.ui_current = next_notification],
            next_notification)
  ELSE S

\* UI NotificationManager.dismiss_current
dismiss_current(S) == IF is_showing(S) THEN widget_dismiss(S) ELSE S

\* hide_notification.emit(), connected to dismiss_current
EmitHide(S) ==
  dismiss_current([S EXCEPT !.calls =
                     Append(@, Call("hide_notification", S.current_notification, S))])

\* show_notification.emit(event, type), connected to the UI manager
EmitShow(S, r) ==
  ui_show_notification(
    [S EXCEPT !.calls = Append(@, Call("show_notification", r, S))], r)

\* variant that does not signal hide before replacing the current record
show_event_without_hide(S, r) ==
  LET S0 == [S EXCEPT !.calls =
                  Append(@, Call("show_event_notification", r, S))]
      S2 == [S0 EXCEPT !.current_notification = r]
      S3 == EmitShow(S2, r)
  IN [S3 EXCEPT !.dismiss_timer = Started(S.t)]

\* service NotificationManager.show_event_notification
show_event_notification(S, r) ==
  LET S0 == [S EXCEPT !.calls =
                  Append(@, Call("show_event_notification", r, S))]
      S1 == IF S0.current_notification # None THEN EmitHide(S0) ELSE S0
      S2 == [S1 EXCEPT !.current_notification = r]
      S3 == EmitShow(S2, r)
  IN [S3 EXCEPT !.dismiss_timer = Started(S.t)]

\* variant that leaves the dismiss timer running
dismiss_keeps_timer(S) ==
  IF S.current_notification # None
  THEN [EmitHide(S) EXCEPT !.current_notification = None]
  ELSE S

\* service NotificationManager.dismiss_notification
dismiss_notification(S) ==
  IF S.current_notification # None
  THEN [EmitHide(S) EXCEPT !.current_notification = None,
                           !.dismiss_timer = Stopped]
  ELSE S

\* service NotificationManager.auto_dismiss_notification
auto_dismiss_notification(S) ==
  IF S.current_notification # None THEN dismiss_notification(S) ELSE S

\* notification_key = f"{event['id']}_{notification_type}"
Key(r) == <<r.id, r.type>>

\* variant that clears the cache as soon as the ceiling is reached
cleanup_at_ceiling(shown) ==
  IF Cardinality(shown) >= DedupCeiling THEN {} ELSE shown

\* service NotificationManager._cleanup_old_notifications
_cleanup_old_notifications(shown) ==
  IF Cardinality(shown) > DedupCeiling THEN {} ELSE shown

\* the loop of NotificationManager.check_notifications over the reported
\* pairs; C is [S, shown]
RECURSIVE CheckLoop(_, _)
CheckLoop(notifications, C) ==
  IF notifications = << >> THEN C
  ELSE LET r == Head(notifications)
           notification_key == Key(r)
       IN IF notification_key \in C.shown
          THEN CheckLoop(Tail(notifications), C)
          ELSE CheckLoop(Tail(notifications),
                 [S |-> show_event_notification(C.S, r),
                  shown |-> _cleanup_old_notifications(
                              C.shown \cup {notification_key})])

\* ------------------------------------------------------------------------
\* State
\* ------------------------------------------------------------------------
\* ------------------------------------------------------------------------
\* Pomodoro service: PomodoroService as a record P of its fields, with
\* timer_active for _timer.isActive() and emitted for the signals emitted by
\* the call in progress
\* ------------------------------------------------------------------------
\* max(lo, min(x, hi))
Clamp(x, lo, hi) ==
  LET m == IF x < hi THEN x ELSE hi
  IN IF lo > m THEN lo ELSE m

tick_signal(P) ==
  [sig |-> "tick", remaining |-> P.remaining_seconds, phase |-> P.phase,
   round_index |-> P.round_index]

phase_changed_signal(P) ==
  [sig |-> "phase_changed", remaining |-> -1, phase |-> P.phase,
   round_index |-> P.round_index]

finished_signal ==
  [sig |-> "finished", remaining |-> -1, phase |-> "none", round_index |-> 0]

Emit(P, signal) == [P EXCEPT !.emitted = Append(@, signal)]

\* PomodoroService.__init__
Constructed ==
  [focus_seconds |-> 25 * 60, break_seconds |-> 5 * 60, total_rounds |-> 4,
   phase |-> "focus", round_index |-> 1, remaining_seconds |-> 25 * 60,
   running |-> FALSE, paused |-> FALSE, timer_active |-> FALSE,
   emitted |-> << >>]

\* PomodoroService.start
pomodoro_start(P, focus_minutes, break_minutes, rounds) ==
  LET Q == [P EXCEPT !.focus_seconds = Clamp(focus_minutes, 1, 180) * 60,
                     !.break_seconds = Clamp(break_minutes, 1, 60) * 60,
                     !.total_rounds = Clamp(rounds, 1, 24),
                     !.round_index = 1,
                     !.phase = "focus",
                     !.remaining_seconds = Clamp(focus_minutes, 1, 180) * 60,
                     !.paused = FALSE,
                     !.running = TRUE]
      R == Emit(Emit(Q, phase_changed_signal(Q)), tick_signal(Q))
  IN [R EXCEPT !.timer_active = TRUE]

\* variant that sets the flag and leaves the timer running
pause_timer_running(P) ==
  IF ~P.running \/ P.paused THEN P
  ELSE [P EXCEPT !.paused = TRUE]

\* PomodoroService.pause
pomodoro_pause(P) ==
  IF ~P.running \/ P.paused THEN P
  ELSE [P EXCEPT !.paused = TRUE, !.timer_active = FALSE]

\* PomodoroService.resume
pomodoro_resume(P) ==
  IF ~P.running \/ ~P.paused THEN P
  ELSE [P EXCEPT !.paused = FALSE, !.timer_active = TRUE]

\* PomodoroService.toggle_pause
toggle_pause(P) ==
  IF P.paused THEN pomodoro_resume(P) ELSE pomodoro_pause(P)

\* PomodoroService.stop
pomodoro_stop(P) ==
  Emit([P EXCEPT !.timer_active = FALSE, !.running = FALSE,
                 !.paused = FALSE],
       finished_signal)

\* variant that goes on to a further round after the last break
_advance_phase_unbounded(P) ==
  IF P.phase = "focus"
  THEN LET Q == [P EXCEPT !.phase = "break",
                          !.remaining_seconds = P.break_seconds]
       IN Emit(Emit(Q, phase_changed_signal(Q)), tick_signal(Q))
  ELSE LET Q == [P EXCEPT !.round_index = @ + 1,
                          !.phase = "focus",
                          !.remaining_seconds = P.focus_seconds]
       IN Emit(Emit(Q, phase_changed_signal(Q)), tick_signal(Q))

\* PomodoroService._advance_phase
_advance_phase(P) ==
  IF P.phase = "focus"
  THEN LET Q == [P EXCEPT !.phase = "break",
                          !.remaining_seconds = P.break_seconds]
       IN Emit(Emit(Q, phase_changed_signal(Q)), tick_signal(Q))
  ELSE IF P.round_index >= P.total_rounds
       THEN pomodoro_stop(P)
       ELSE LET Q == [P EXCEPT !.round_index = @ + 1,
                               !.phase = "focus",
                               !.remaining_seconds = P.focus_seconds]
            IN Emit(Emit(Q, phase_changed_signal(Q)), tick_signal(Q))

\* variant that also takes the session out of its pause
skip_resuming(P) ==
  IF ~P.running THEN P
  ELSE _advance_phase([P EXCEPT !.remaining_seconds = 0, !.paused = FALSE,
                                !.timer_active = TRUE])

\* PomodoroService.skip
pomodoro_skip(P) ==
  IF ~P.running THEN P
  ELSE _advance_phase([P EXCEPT !.remaining_seconds = 0])

\* variant that always restores the duration of a focus phase
reset_to_focus(P) ==
  IF ~P.running THEN P
  ELSE LET Q == [P EXCEPT !.remaining_seconds = P.focus_seconds]
       IN Emit(Q, tick_signal(Q))

\* PomodoroService.reset
pomodoro_reset(P) ==
  IF ~P.running THEN P
  ELSE LET Q == [P EXCEPT !.remaining_seconds =
                            IF P.phase = "focus" THEN P.focus_seconds
                            ELSE P.break_seconds]
       IN Emit(Q, tick_signal(Q))

\* variant that counts down and never moves to the next phase
_on_timeout_stalling(P) ==
  IF ~P.running \/ P.paused THEN P
  ELSE LET Q == [P EXCEPT !.remaining_seconds =
                            IF @ - 1 > 0 THEN @ - 1 ELSE 0]
       IN Emit(Q, tick_signal(Q))

\* PomodoroService._on_timeout
_on_timeout(P) ==
  IF ~P.running \/ P.paused THEN P
  ELSE LET Q == [P EXCEPT !.remaining_seconds =
                            IF @ - 1 > 0 THEN @ - 1 ELSE 0]
           R == Emit(Q, tick_signal(Q))
       IN IF R.remaining_seconds = 0 THEN _advance_phase(R) ELSE R

VARIABLES
  now,                  \* the Clock
  tick_due,             \* notification_timer has timed out, handler not yet run
  monitoring,           \* notification_timer.isActive()
  events,               \* CalendarService.events
  last_update,          \* CalendarService.last_update (-1: never)
  current_events,       \* CalendarDisplayWindow.current_events
  last_refresh,         \* CalendarDisplayWindow.last_refresh
  fetch,                \* the gateway's answer to the latest refresh
  shown_notifications,  \* service NotificationManager.shown_notifications
  current_notification, \* service NotificationManager.current_notification
  dismiss_timer,        \* service NotificationManager.dismiss_timer
  notification_queue,   \* UI NotificationManager.notification_queue
  ui_current,           \* UI NotificationManager.current_notification
  widget_event,         \* NotificationWidget.current_event, notification_type
  visible,              \* NotificationWidget.isVisible()
  opacity,              \* opacity_effect.opacity(): 0 or positive
  auto_dismiss_timer,   \* NotificationWidget.auto_dismiss_timer
  fade_in,              \* fade_in_animation started, no frame drawn yet
  fade_out,             \* fade_out_animation running
  promoted,             \* process_queue showed an entry, no frame drawn yet
  calls,                \* signals and calls made by the latest handler
  handed,               \* pairs passed to show_event_notification, in order
  activated,            \* records the widget was asked to show, in order
  drawn,                \* records that have been on screen
  op,                   \* the handler that ran last
  st_start, st_end, st_now, st_result,   \* inputs and results of StatusSpec
  r_wm,                 \* RuleSpec: the configured warning lead (minutes)
  r_start, r_end,       \* RuleSpec: start and end of the one Timeline event
  r_status,             \* RuleSpec: its stored status
  r_now,                \* RuleSpec: the Clock
  r_due,                \* RuleSpec: rule-check tick timed out, scan not yet run
  r_result,             \* RuleSpec: pairs reported by the latest scan
  r_shown,              \* RuleSpec: shown_notifications
  r_handed,             \* RuleSpec: records handed to the scheduler, in order
  n_raw,                \* NormSpec: the raw record given to the normalizer
  n_event,              \* NormSpec: what _process_event returned for it
  q_now,                \* QuerySpec: the clock when a query is called
  q_t2,                 \* QuerySpec: the clock when it is read a second time
  q_next,               \* QuerySpec: what get_next_event returned
  q_minutes,            \* QuerySpec: what get_time_until_next_event returned
  pomodoro,             \* PomodoroSpec: the PomodoroService
  p_op                  \* PomodoroSpec: its method that ran last

timeline == <<events, last_update, current_events, last_refresh, fetch>>
scheduler == <<current_notification, dismiss_timer, notification_queue,
               ui_current, widget_event, visible, opacity,
               auto_dismiss_timer, fade_in, fade_out>>
statusvars == <<st_start, st_end, st_now, st_result>>
rulevars == <<r_wm, r_start, r_end, r_status, r_now, r_due, r_result, r_shown,
              r_handed>>
normvars == <<n_raw, n_event>>
queryvars == <<q_now, q_t2, q_next, q_minutes>>
pomvars == <<pomodoro, p_op>>
history == <<handed, activated, drawn>>
vars == <<now, tick_due, monitoring, timeline, shown_notifications, scheduler, promoted,
          calls, history, op, statusvars, rulevars, normvars, queryvars, pomvars>>

\* the records of the entries of a call log made by the call named what
RECURSIVE RecsOf(_, _)
RecsOf(c, what) ==
  IF c = << >> THEN << >>
  ELSE (IF Head(c).what = what THEN << Head(c).rec >> ELSE << >>)
         \o RecsOf(Tail(c), what)

Range(s) == { s[i] : i \in 1..Len(s) }

Has(c, what) == \E i \in 1..Len(c) : c[i].what = what

\* the scheduler's fields as one record, with an empty call log
Sched ==
  [current_notification |-> current_notification,
   dismiss_timer |-> dismiss_timer,
   notification_queue |-> notification_queue,
   ui_current |-> ui_current,
   widget_event |-> widget_event,
   visible |-> visible,
   opacity |-> opacity,
   auto_dismiss_timer |-> auto_dismiss_timer,
   fade_in |-> fade_in,
   fade_out |-> fade_out,
   calls |-> << >>,
   t |-> now]

SetSched(S) ==
  /\ current_notification' = S.current_notification
  /\ dismiss_timer' = S.dismiss_timer
  /\ notification_queue' = S.notification_queue
  /\ ui_current' = S.ui_current
  /\ widget_event' = S.widget_event
  /\ visible' = S.visible
  /\ opacity' = S.opacity
  /\ auto_dismiss_timer' = S.auto_dismiss_timer
  /\ fade_in' = S.fade_in
  /\ fade_out' = S.fade_out
  /\ calls' = S.calls
  /\ activated' = activated \o RecsOf(S.calls, "widget.show_notification")
  /\ drawn' = IF is_showing(S) /\ S.widget_event # None
              THEN drawn \cup {S.widget_event} ELSE drawn

\* variant that also removes from the list the events that are over
Restatus_dropping_past(evs, t) ==
  LET keep == { i \in 1..Len(evs) : t <= evs[i].end_datetime }
      nth(k) == CHOOSE i \in keep : Cardinality({ j \in keep : j < i }) = k - 1
  IN [k \in 1..Cardinality(keep) |->
        [evs[nth(k)] EXCEPT !.status =
           window_status(t, evs[nth(k)].start_datetime,
                         evs[nth(k)].end_datetime)]]

\* the events of a list with their status recomputed at instant t
Restatus(evs, t) ==
  [i \in 1..Len(evs) |->
     [evs[i] EXCEPT !.status =
        window_status(t, evs[i].start_datetime, evs[i].end_datetime)]]

\* the flag of update_event_statuses: some event was stored as current and
\* is past at instant t
marker_needs_update(evs, t) ==
  \E i \in 1..Len(evs) :
    /\ evs[i].status = "current"
    /\ window_status(t, evs[i].start_datetime, evs[i].end_datetime) = "past"

\* CalendarDisplayWindow.refresh_calendar_data against the answer g
RefreshResult(g) == get_today_events(events, last_update, g, now)

\* pairs fired for the events of earlier days of a long session
OldRecords ==
  [n \in 1..DedupCeiling |->
     [id |-> 101 + (n - 1) \div 2,
      type |-> IF n % 2 = 1 THEN "warning" ELSE "start"]]


\* state after construction: CalendarDisplayWindow.__init__ ends with a
\* first refresh_calendar_data()
InitMain(fired) ==
  /\ now = 0
  /\ tick_due = FALSE
  /\ monitoring = TRUE
  /\ \E g \in GatewayResponses :
       LET r == get_today_events(<< >>, -1, g, 0)
       IN /\ events = r.events
          /\ last_update = r.last_update
          /\ current_events = r.ret
          /\ fetch = g
  /\ last_refresh = 0
  /\ shown_notifications = { Key(r) : r \in Range(fired) }
  /\ handed = fired
  /\ drawn = {}
  /\ activated = << >>
  /\ current_notification = None
  /\ dismiss_timer = Stopped
  /\ notification_queue = << >>
  /\ ui_current = None
  /\ widget_event = None
  /\ visible = FALSE
  /\ opacity = 1
  /\ auto_dismiss_timer = Stopped
  /\ fade_in = FALSE
  /\ fade_out = FALSE
  /\ promoted = FALSE
  /\ calls = << >>
  /\ op = "refresh_calendar_data"

NotComputed == [service |-> "none", window |-> "none", widget |-> "none"]

StatusIdle ==
  /\ st_start = 0 /\ st_end = 0 /\ st_now = 0
  /\ st_result = NotComputed

RuleIdle ==
  /\ r_wm = WARNING_MINUTES
  /\ r_start = 0 /\ r_end = 0 /\ r_status = "none"
  /\ r_now = 0 /\ r_due = FALSE
  /\ r_result = << >> /\ r_shown = {} /\ r_handed = << >>

NotNormalized == [id |-> -1]

NormIdle ==
  /\ n_raw = [id |-> 0]
  /\ n_event = NotNormalized

NotAsked == [id |-> -1]

QueryIdle ==
  /\ q_now = 0 /\ q_t2 = 0
  /\ q_next = NotAsked
  /\ q_minutes = NoMinutes - 1

\* no Pomodoro session has been started
PomodoroIdle ==
  /\ pomodoro = Constructed
  /\ p_op = "__init__"

Init ==
  /\ InitMain(<< >>)
  /\ StatusIdle /\ RuleIdle /\ NormIdle /\ QueryIdle /\ PomodoroIdle

\* ------------------------------------------------------------------------
\* Actions: one per periodic callback or user event
\* ------------------------------------------------------------------------
\* a running single-shot timer has timed out
Due(timer, timeout) == timer.active /\ timer.since + timeout <= now

\* what is over before a rule-check interval ends: the handler of the
\* previous rule-check timeout, the animations (0.5 s), the promotion of a
\* waiting backlog entry (drain tick every second), and the single-shot
\* timers started before this interval
Settled ==
  /\ ~tick_due
  /\ ~fade_in
  /\ ~fade_out
  /\ ~(notification_queue # << >> /\ ~(visible /\ opacity > 0))
  /\ ~Due(dismiss_timer, NOTIFICATION_TIMEOUT)
  /\ ~Due(auto_dismiss_timer, AutoDismissTimeout)

\* the clock advances by one rule-check interval, at the end of which
\* notification_timer times out
AdvanceClock ==
  /\ now < MaxNow
  /\ Settled
  /\ now' = now + CheckInterval
  /\ tick_due' = monitoring
  /\ op' = "clock"
  /\ calls' = << >>
  /\ UNCHANGED <<monitoring, timeline, shown_notifications, scheduler, promoted,
                 history, statusvars, rulevars, normvars, queryvars, pomvars>>

\* refresh tick (or F5): CalendarDisplayWindow.refresh_calendar_data
RefreshCalendarData ==
  \E g \in GatewayResponses :
    LET r == RefreshResult(g)
    IN /\ events' = r.events
       /\ last_update' = r.last_update
       /\ current_events' = r.ret
       /\ last_refresh' = now
       /\ fetch' = g
       /\ op' = "refresh_calendar_data"
       /\ calls' = << >>
       /\ UNCHANGED <<now, tick_due, monitoring, shown_notifications, scheduler, promoted,
                      history, statusvars, rulevars, normvars, queryvars, pomvars>>

\* status tick: CalendarDisplayWindow.update_event_statuses; the event
\* dicts of current_events are the dicts of CalendarService.events
UpdateEventStatuses ==
  /\ current_events # << >>
  /\ current_events' = Restatus(current_events, now)
  /\ events' = Restatus(current_events, now)
  /\ op' = "update_event_statuses"
  /\ calls' = IF marker_needs_update(current_events, now)
              THEN << Call("update_time_marker_position", None, Sched) >>
              ELSE << >>
  /\ UNCHANGED <<now, tick_due, monitoring, last_update, last_refresh, fetch,
                 shown_notifications, scheduler, promoted, history, statusvars, rulevars, normvars, queryvars, pomvars>>

\* rule-check tick: service NotificationManager.check_notifications
CheckNotifications ==
  LET notifications ==
        get_events_needing_notification(events, now, WARNING_MINUTES)
      C == CheckLoop(notifications, [S |-> Sched, shown |-> shown_notifications])
  IN /\ tick_due
     /\ tick_due' = FALSE
     /\ SetSched(C.S)
     /\ shown_notifications' = C.shown
     /\ handed' = handed \o RecsOf(C.S.calls, "show_event_notification")
     /\ op' = "check_notifications"
     /\ UNCHANGED <<now, monitoring, timeline, promoted, statusvars, rulevars, normvars, queryvars, pomvars>>

\* the service's single-shot dismiss_timer fires
DismissTimerFires ==
  /\ Due(dismiss_timer, NOTIFICATION_TIMEOUT)
  /\ SetSched(auto_dismiss_notification([Sched EXCEPT !.dismiss_timer = Stopped]))
  /\ op' = "auto_dismiss_notification"
  /\ UNCHANGED <<now, tick_due, monitoring, timeline, shown_notifications, promoted, handed,
                 statusvars, rulevars, normvars, queryvars, pomvars>>

\* the widget's single-shot auto_dismiss_timer fires
AutoDismissTimerFires ==
  /\ Due(auto_dismiss_timer, AutoDismissTimeout)
  /\ SetSched(widget_auto_dismiss([Sched EXCEPT !.auto_dismiss_timer = Stopped]))
  /\ op' = "auto_dismiss"
  /\ UNCHANGED <<now, tick_due, monitoring, timeline, shown_notifications, promoted, handed,
                 statusvars, rulevars, normvars, queryvars, pomvars>>

\* dismiss button, click outside the container, or Escape on the drawn
\* widget
UserDismiss ==
  /\ is_showing(Sched)
  /\ SetSched(widget_dismiss(Sched))
  /\ op' = "dismiss"
  /\ UNCHANGED <<now, tick_due, monitoring, timeline, shown_notifications, promoted, handed,
                 statusvars, rulevars, normvars, queryvars, pomvars>>

\* left click on the main window: CalendarDisplayWindow.mousePressEvent
MainWindowClick ==
  /\ SetSched(dismiss_current(Sched))
  /\ op' = "mousePressEvent"
  /\ UNCHANGED <<now, tick_due, monitoring, timeline, shown_notifications, promoted, handed,
                 statusvars, rulevars, normvars, queryvars, pomvars>>

\* backlog-drain tick: UI NotificationManager.process_queue; drain ticks
\* are a second apart, so the alert shown by one has drawn its first frame
\* before the next
ProcessQueue ==
  /\ ~promoted
  /\ SetSched(process_queue(Sched))
  /\ promoted' = Has(process_queue(Sched).calls, "widget.show_notification")
  /\ op' = "process_queue"
  /\ UNCHANGED <<now, tick_due, monitoring, timeline, shown_notifications, handed, statusvars, rulevars, normvars, queryvars, pomvars>>

\* first frame of the fade-in animation: the opacity becomes positive
FadeInFrame ==
  /\ fade_in
  /\ SetSched([Sched EXCEPT !.opacity = 1, !.fade_in = FALSE])
  /\ op' = "fade_in_frame"
  /\ promoted' = FALSE
  /\ UNCHANGED <<now, tick_due, monitoring, timeline, shown_notifications, handed, statusvars, rulevars, normvars, queryvars, pomvars>>

\* the fade-out animation ends at opacity 0.0 and its finished signal
\* hides the widget
FadeOutFinished ==
  /\ fade_out
  /\ ~fade_in
  /\ SetSched([Sched EXCEPT !.opacity = 0, !.fade_out = FALSE,
                            !.visible = FALSE])
  /\ op' = "fade_out_finished"
  /\ UNCHANGED <<now, tick_due, monitoring, timeline, shown_notifications, promoted, handed,
                 statusvars, rulevars, normvars, queryvars, pomvars>>

\* NotificationManager.reset_notifications
ResetNotifications ==
  /\ shown_notifications' = {}
  /\ SetSched(dismiss_notification(Sched))
  /\ op' = "reset_notifications"
  /\ UNCHANGED <<now, tick_due, monitoring, timeline, promoted, handed,
                 statusvars, rulevars, normvars, queryvars, pomvars>>

\* NotificationManager.stop_monitoring (called by closeEvent)
StopMonitoring ==
  /\ monitoring' = FALSE
  /\ tick_due' = FALSE
  /\ SetSched(dismiss_notification([Sched EXCEPT !.dismiss_timer = Stopped]))
  /\ op' = "stop_monitoring"
  /\ UNCHANGED <<now, timeline, shown_notifications, promoted, handed,
                 statusvars, rulevars, normvars, queryvars, pomvars>>

\* NotificationManager.start_monitoring
StartMonitoring ==
  /\ ~monitoring
  /\ monitoring' = TRUE
  /\ op' = "start_monitoring"
  /\ calls' = << >>
  /\ UNCHANGED <<now, tick_due, timeline, shown_notifications, scheduler, promoted,
                 history, statusvars, rulevars, normvars, queryvars, pomvars>>

Next ==
  \/ AdvanceClock
  \/ RefreshCalendarData
  \/ UpdateEventStatuses
  \/ CheckNotifications
  \/ DismissTimerFires
  \/ AutoDismissTimerFires
  \/ UserDismiss
  \/ MainWindowClick
  \/ ProcessQueue
  \/ FadeInFrame
  \/ FadeOutFinished

Spec == Init /\ [][Next]_vars

\* the application with its timers and animations running: the rule-check
\* timer, the drain tick, the two single-shot dismiss timers and the frames
\* of the animations fire whenever they are due; user actions, refreshes
\* and status ticks may or may not happen (check_notifications is enabled
\* exactly while its timer's timeout is pending, so its fairness is that
\* no timeout stays pending for ever)
LiveSpec ==
  /\ Init
  /\ [][Next]_vars
  /\ WF_vars(AdvanceClock)
  /\ []<>(~tick_due)
  /\ WF_vars(ProcessQueue)
  /\ WF_vars(DismissTimerFires)
  /\ WF_vars(AutoDismissTimerFires)
  /\ WF_vars(FadeInFrame)
  /\ WF_vars(FadeOutFinished)

\* update_timer of the EventWidget of the i-th displayed event:
\* EventWidget.update_status; event_data is the dict the window and the
\* service hold
WidgetUpdateStatus ==
  \E i \in 1..Len(current_events) :
    LET old_status == current_events[i].status
        new_status == get_current_status(now, current_events[i].start_datetime,
                                         current_events[i].end_datetime)
    IN /\ old_status # new_status
       /\ current_events' = [current_events EXCEPT ![i].status = new_status]
       /\ events' = [current_events EXCEPT ![i].status = new_status]
       /\ op' = "update_status"
       /\ calls' = << >>
       /\ UNCHANGED <<now, tick_due, monitoring, last_update, last_refresh,
                      fetch, shown_notifications, scheduler, promoted,
                      history, statusvars, rulevars, normvars, queryvars, pomvars>>

\* the whole application, the timers of the event widgets included
WidgetNext == Next \/ WidgetUpdateStatus

WidgetSpec == Init /\ [][WidgetNext]_vars

\* a session that has already fired DedupCeiling pairs, or one less, on
\* earlier days
InitLong ==
  /\ \E n \in {DedupCeiling - 1, DedupCeiling} :
       InitMain(SubSeq(OldRecords, 1, n))
  /\ StatusIdle
  /\ RuleIdle
  /\ NormIdle
  /\ QueryIdle
  /\ PomodoroIdle

LongSpec == InitLong /\ [][Next]_vars

\* the service scheduler driven through its whole interface, on the Timeline
\* of the first refresh
ServiceNext ==
  \/ AdvanceClock
  \/ CheckNotifications
  \/ DismissTimerFires
  \/ AutoDismissTimerFires
  \/ UserDismiss
  \/ MainWindowClick
  \/ ProcessQueue
  \/ FadeInFrame
  \/ FadeOutFinished
  \/ ResetNotifications
  \/ StopMonitoring
  \/ StartMonitoring

ServiceSpec == Init /\ [][ServiceNext]_vars

\* ------------------------------------------------------------------------
\* The status function on drawn inputs: each of the three places computes
\* the status of one event (st_start, st_end) at the instant st_now
\* ------------------------------------------------------------------------
StatusInit ==
  /\ InitMain(<< >>)
  /\ fetch = AllOk
  /\ st_start \in 0..MaxT
  /\ st_end \in 0..MaxT
  /\ st_now \in 0..MaxT
  /\ st_result = NotComputed
  /\ RuleIdle
  /\ NormIdle
  /\ QueryIdle
  /\ PomodoroIdle

StatusFrame == UNCHANGED <<now, tick_due, monitoring, timeline, shown_notifications, scheduler,
                           promoted, calls, history, st_start, st_end, st_now,
                           rulevars, normvars, queryvars, pomvars>>

ServiceStatus ==
  /\ st_result.service = "none"
  /\ st_result' = [st_result EXCEPT
                     !.service = _get_event_status(st_now, st_start, st_end)]
  /\ op' = "_get_event_status"
  /\ StatusFrame

WindowStatus ==
  /\ st_result.window = "none"
  /\ st_result' = [st_result EXCEPT
                     !.window = window_status(st_now, st_start, st_end)]
  /\ op' = "update_event_statuses"
  /\ StatusFrame

WidgetStatus ==
  /\ st_result.widget = "none"
  /\ st_result' = [st_result EXCEPT
                     !.widget = get_current_status(st_now, st_start, st_end)]
  /\ op' = "get_current_status"
  /\ StatusFrame

StatusNext == ServiceStatus \/ WindowStatus \/ WidgetStatus

StatusSpec == StatusInit /\ [][StatusNext]_vars

\* ------------------------------------------------------------------------
\* The rule engine on drawn inputs: one event (r_start, r_end) on the
\* Timeline of a session that starts at instant 0, scanned at every
\* rule-check tick with the warning lead r_wm
\* ------------------------------------------------------------------------
WarningLeads == (0..MaxWarn) \cup {WARNING_MINUTES}

RuleEvent ==
  [id |-> 1, start_datetime |-> r_start, end_datetime |-> r_end,
   is_all_day |-> FALSE, calendar_name |-> "work", status |-> r_status]

RuleInit ==
  /\ InitMain(<< >>)
  /\ fetch = AllOk
  /\ StatusIdle
  /\ NormIdle
  /\ QueryIdle
  /\ PomodoroIdle
  /\ r_wm \in WarningLeads
  /\ r_start \in 0..MaxStart
  /\ r_end \in {r_start, r_start + DefaultDuration}
  /\ r_status = _get_event_status(0, r_start, r_end)
  /\ r_now = 0 /\ r_due = FALSE
  /\ r_result = << >> /\ r_shown = {} /\ r_handed = << >>

RuleFrame == UNCHANGED <<now, tick_due, monitoring, timeline, shown_notifications,
                         scheduler, promoted, calls, history, statusvars,
                         normvars, queryvars, pomvars>>

\* notification_timer times out after another CheckInterval
RuleClock ==
  /\ ~r_due
  /\ r_now < r_start + MaxAfter
  /\ r_now' = r_now + CheckInterval
  /\ r_due' = TRUE
  /\ op' = "clock"
  /\ UNCHANGED <<r_wm, r_start, r_end, r_status, r_result, r_shown, r_handed>>
  /\ RuleFrame

\* status tick: the stored status of the event is recomputed
RuleStatusTick ==
  /\ r_status # window_status(r_now, r_start, r_end)
  /\ r_status' = window_status(r_now, r_start, r_end)
  /\ op' = "update_event_statuses"
  /\ UNCHANGED <<r_wm, r_start, r_end, r_now, r_due, r_result, r_shown, r_handed>>
  /\ RuleFrame

\* rule-check tick: check_notifications over the one-event Timeline
RuleScan ==
  LET notifications ==
        get_events_needing_notification(<< RuleEvent >>, r_now, r_wm)
      C == CheckLoop(notifications, [S |-> Sched, shown |-> r_shown])
  IN /\ r_due
     /\ r_due' = FALSE
     /\ r_result' = notifications
     /\ r_shown' = C.shown
     /\ r_handed' = r_handed \o RecsOf(C.S.calls, "show_event_notification")
     /\ op' = "check_notifications"
     /\ UNCHANGED <<r_wm, r_start, r_end, r_status, r_now>>
     /\ RuleFrame

RuleNext == RuleClock \/ RuleStatusTick \/ RuleScan

RuleSpec == RuleInit /\ [][RuleNext]_vars

\* ------------------------------------------------------------------------
\* The normalizer on one raw record drawn from the shapes the gateway's
\* answer can take
\* ------------------------------------------------------------------------
ClockReadings == { k * ClockStep : k \in 0..MaxClock }

RawRecords ==
  { r \in [id : {1},
           start_kind : {"dateTime", "date", "missing", "garbage"},
           start : ClockReadings \cup (0..MaxDay),
           end_kind : {"dateTime", "date", "empty", "absent", "garbage"},
           end : ClockReadings \cup (0..MaxDay),
           aware : BOOLEAN, off : {0, TzOffset}] :
      /\ r.start_kind = "dateTime" => r.start \in ClockReadings
      /\ r.start_kind = "date" => r.start \in 0..MaxDay
      /\ r.start_kind \in {"missing", "garbage"} => r.start = 0
      /\ r.end_kind = "dateTime" => r.end \in ClockReadings
      /\ r.end_kind = "date" => r.end \in 0..MaxDay
      /\ r.end_kind \in {"empty", "absent", "garbage"} => r.end = 0
      /\ ~r.aware => r.off = 0 }

NormInit ==
  /\ InitMain(<< >>)
  /\ fetch = AllOk
  /\ StatusIdle
  /\ RuleIdle
  /\ n_raw \in RawRecords
  /\ n_event = NotNormalized
  /\ QueryIdle
  /\ PomodoroIdle

\* one call of CalendarService._process_event
Normalize ==
  /\ n_event = NotNormalized
  /\ n_event' = _process_event(n_raw, Calendars[1], now)
  /\ UNCHANGED <<now, tick_due, monitoring, timeline, shown_notifications,
                 scheduler, promoted, calls, history, op, statusvars,
                 rulevars, n_raw, queryvars, pomvars>>

NormNext == Normalize

NormSpec == NormInit /\ [][NormNext]_vars

\* ------------------------------------------------------------------------
\* The Timeline queries on the Timeline of the first refresh, called at a
\* drawn instant
\* ------------------------------------------------------------------------
QueryInit ==
  /\ InitMain(<< >>)
  /\ StatusIdle
  /\ RuleIdle
  /\ NormIdle
  /\ q_now \in 0..MaxQueryNow
  /\ q_t2 \in q_now..(q_now + MaxDrift)
  /\ q_next = NotAsked
  /\ q_minutes = NoMinutes - 1
  /\ PomodoroIdle

QueryFrame ==
  UNCHANGED <<now, tick_due, monitoring, timeline, shown_notifications,
              scheduler, promoted, calls, history, op, statusvars, rulevars,
              normvars, q_now, q_t2, pomvars>>

\* one call of CalendarService.get_next_event
GetNextEvent ==
  /\ q_next = NotAsked
  /\ q_next' = get_next_event(events, q_now)
  /\ UNCHANGED q_minutes
  /\ QueryFrame

\* one call of CalendarService.get_time_until_next_event
GetTimeUntilNextEvent ==
  /\ q_minutes = NoMinutes - 1
  /\ q_minutes' = get_time_until_next_event(events, q_now, q_t2)
  /\ UNCHANGED q_next
  /\ QueryFrame

QueryNext == GetNextEvent \/ GetTimeUntilNextEvent

QuerySpec == QueryInit /\ [][QueryNext]_vars

\* ------------------------------------------------------------------------
\* The Pomodoro service under the keys of the PomodoroWidget, the starts of
\* a session and the timeouts of its one-second timer
\* ------------------------------------------------------------------------
PomodoroInit ==
  /\ InitMain(<< >>)
  /\ fetch = AllOk
  /\ StatusIdle
  /\ RuleIdle
  /\ NormIdle
  /\ QueryIdle
  /\ PomodoroIdle

PomodoroFrame ==
  UNCHANGED <<now, tick_due, monitoring, timeline, shown_notifications,
              scheduler, promoted, calls, history, op, statusvars, rulevars,
              normvars, queryvars>>

\* the service as a call finds it: nothing emitted yet
Called == [pomodoro EXCEPT !.emitted = << >>]

\* a session is started with the values of the setup dialog
Start ==
  \E focus_minutes \in 0..MaxFocus, break_minutes \in 0..MaxBreak,
     rounds \in 0..MaxRounds :
    /\ pomodoro' = pomodoro_start(Called, focus_minutes, break_minutes, rounds)
    /\ p_op' = "start"
    /\ PomodoroFrame

\* Space / Enter
TogglePause ==
  /\ pomodoro' = toggle_pause(Called)
  /\ p_op' = "toggle_pause"
  /\ PomodoroFrame

Pause ==
  /\ pomodoro' = pomodoro_pause(Called)
  /\ p_op' = "pause"
  /\ PomodoroFrame

Resume ==
  /\ pomodoro' = pomodoro_resume(Called)
  /\ p_op' = "resume"
  /\ PomodoroFrame

\* S
Skip ==
  /\ pomodoro' = pomodoro_skip(Called)
  /\ p_op' = "skip"
  /\ PomodoroFrame

\* R
Reset ==
  /\ pomodoro' = pomodoro_reset(Called)
  /\ p_op' = "reset"
  /\ PomodoroFrame

\* Esc / Q, or the dialog is closed
Stop ==
  /\ pomodoro' = pomodoro_stop(Called)
  /\ p_op' = "stop"
  /\ PomodoroFrame

\* the one-second timer times out (it does so only while it is active)
OnTimeout ==
  /\ pomodoro.timer_active
  /\ pomodoro' = _on_timeout(Called)
  /\ p_op' = "_on_timeout"
  /\ PomodoroFrame

PomodoroNext ==
  \/ Start
  \/ TogglePause
  \/ Pause
  \/ Resume
  \/ Skip
  \/ Reset
  \/ Stop
  \/ OnTimeout

PomodoroSpec == PomodoroInit /\ [][PomodoroNext]_vars

\* the same with the one-second timer firing again and again while it is
\* active
PomodoroLiveSpec ==
  /\ PomodoroInit
  /\ [][PomodoroNext]_vars
  /\ WF_vars(OnTimeout)

\* ------------------------------------------------------------------------
\* Properties
\* ------------------------------------------------------------------------
Whats(c) == [i \in 1..Len(c) |-> c[i].what]

\* positions of the call log where a record is handed to the scheduler
ArrivalIdx(c) == { i \in 1..Len(c) : c[i].what = "show_event_notification" }

\* the calls caused by the arrival at position i: up to the next arrival
BlockOf(c, i) ==
  LET later == { j \in ArrivalIdx(c) : j > i }
      last == IF later = {} THEN Len(c)
              ELSE (CHOOSE j \in later : \A k \in later : j <= k) - 1
  IN SubSeq(c, i + 1, last)

LastArrival(c) == c[CHOOSE i \in ArrivalIdx(c) : \A k \in ArrivalIdx(c) : k <= i].rec

IsPrefix(s, t) == Len(s) <= Len(t) /\ s = SubSeq(t, 1, Len(s))

\* C1: at most one alert is active: the widget is never asked to show an
\* alert while the alert it showed before is still undismissed (its
\* auto-dismiss timer running, neither dismiss nor timeout yet).
C1_ShowOnlyWhenNoneActive ==
  \A i \in 1..Len(calls) :
    calls[i].what = "widget.show_notification" => ~calls[i].active

\* C2: a pair (eventId, kind) that was handed to the scheduler once is never
\* handed again by a later rule-check scan of the session.
C2_NoPairHandedTwice ==
  [][\A i \in ArrivalIdx(calls') :
       Key(calls'[i].rec) \notin { Key(r) : r \in Range(handed) }]_vars

\* C3: the status is Upcoming iff now < start, Current iff
\* start <= now <= end, Past otherwise, and the three places that compute it
\* return that value for the same (now, start, end).
StatusRule(v) ==
  /\ v \in {"upcoming", "current", "past"}
  /\ (v = "upcoming") <=> (st_now < st_start)
  /\ (v = "current") <=> (st_start <= st_now /\ st_now <= st_end)
  /\ (v = "past") <=> (~(st_now < st_start)
                         /\ ~(st_start <= st_now /\ st_now <= st_end))

C3_StatusRule ==
  /\ st_result.service # "none" => StatusRule(st_result.service)
  /\ st_result.window # "none" => StatusRule(st_result.window)
  /\ st_result.widget # "none" => StatusRule(st_result.widget)

C3_Witness ==
  /\ st_result.service = "current"
  /\ st_result.window = "current"
  /\ st_result.widget = "current"
  /\ st_start < st_end
  /\ st_now = st_end

\* C4: when the fetch of the calendar list fails during a refresh, the
\* Timeline after the call equals the Timeline before it and no exception
\* leaves the call.
C4_ListFailureKeepsTimeline ==
  [][(op' = "refresh_calendar_data" /\ fetch'.service = "ok"
        /\ fetch'.list = "fail")
       => (events' = events /\ ~RefreshResult(fetch').raised)]_vars

\* C5: a fetch error of any kind on one calendar does not abort the
\* refresh: the events normalized from every other calendar are in the
\* resulting Timeline (unless the Timeline is full of events that start
\* no later).
C5_OtherCalendarsKept ==
  [][(op' = "refresh_calendar_data" /\ fetch'.service = "ok"
        /\ fetch'.list = "ok")
       => \A n \in 1..Len(Calendars) :
            CalStatus(fetch', Calendars[n]) = "ok"
              => \A e \in Range(ProcessAll(FetchCalendar(Calendars[n]),
                                           Calendars[n], now)) :
                   \/ \E k \in 1..Len(events') : events'[k].id = e.id
                   \/ /\ Len(events') = MAX_EVENTS_DISPLAY
                      /\ \A k \in 1..Len(events') :
                           events'[k].start_datetime <= e.start_datetime]_vars

C7_IdleArrivalShownAtOnce ==
  [][op' = "check_notifications" =>
       \A i \in ArrivalIdx(calls') :
         (~calls'[i].cur /\ ~calls'[i].active) =>
           LET b == BlockOf(calls', i)
           IN /\ Whats(b) = <<"show_notification", "widget.show_notification">>
              /\ b[2].rec = calls'[i].rec]_vars

\* C7 (amended): a record that arrives while no alert is active becomes the
\* service's current record in the same step and the service's dismiss timer
\* is started.  If the widget is no longer showing, the Presenter is asked
\* to show it at once, the widget's auto-dismiss timer is started and the
\* backlog is unchanged; while the widget is still showing the fade-out of
\* the previous alert, the record is appended to the backlog instead.
C7_IdleArrival ==
  [][op' = "check_notifications" =>
       /\ \A i \in ArrivalIdx(calls') :
            (~calls'[i].cur /\ ~calls'[i].active) =>
              LET b == BlockOf(calls', i)
                  r == calls'[i].rec
                  only == ArrivalIdx(calls') = {i}
              IN IF calls'[i].showing
                 THEN /\ Whats(b) \in { <<"show_notification", "queued">>,
                                        <<"show_notification">> }
                      /\ Len(b) = 2 => b[2].rec = r
                      /\ Key(r) \in { Key(x) : x \in Range(notification_queue') }
                      /\ only => (/\ ~auto_dismiss_timer'.active
                                  /\ widget_event' = widget_event)
                 ELSE /\ Whats(b) = <<"show_notification",
                                      "widget.show_notification">>
                      /\ b[2].rec = r
                      /\ only => (/\ widget_event' = r
                                  /\ ui_current' = r
                                  /\ visible'
                                  /\ auto_dismiss_timer'.active
                                  /\ notification_queue' = notification_queue)
       /\ ArrivalIdx(calls') # {} =>
            /\ current_notification' = LastArrival(calls')
            /\ dismiss_timer'.active]_vars

C7_Witness ==
  /\ op = "check_notifications"
  /\ ArrivalIdx(calls) = {1}
  /\ ~calls[1].cur /\ ~calls[1].active /\ ~calls[1].showing
  /\ widget_event = calls[1].rec
  /\ current_notification = calls[1].rec
  /\ auto_dismiss_timer.active /\ dismiss_timer.active

\* C8: after a user-triggered dismissal of the active alert the scheduler is
\* Idle: no active record (is_notification_active() false), every
\* auto-dismiss timer stopped, Presenter hidden.
C8_UserDismissalGivesIdle ==
  [][(op' \in {"dismiss", "mousePressEvent"} /\ Has(calls', "widget.dismissed")
        /\ auto_dismiss_timer.active /\ current_notification # None)
       => /\ current_notification' = None
          /\ ui_current' = None
          /\ ~dismiss_timer'.active
          /\ ~auto_dismiss_timer'.active
          /\ fade_out' \/ ~visible']_vars

\* C9: when the auto-dismiss timer of the active alert fires, the result is
\* that of a manual dismissal: no active record, no running auto-dismiss
\* timer, Presenter hidden, backlog unchanged.
C9_TimeoutGivesIdle ==
  [][((op' = "auto_dismiss" /\ Due(auto_dismiss_timer, AutoDismissTimeout))
        \/ (op' = "auto_dismiss_notification"
              /\ Due(dismiss_timer, NOTIFICATION_TIMEOUT)
              /\ current_notification # None))
       => /\ current_notification' = None
          /\ ui_current' = None
          /\ ~dismiss_timer'.active
          /\ ~auto_dismiss_timer'.active
          /\ fade_out' \/ ~visible'
          /\ notification_queue' = notification_queue]_vars

\* C10: a backlog-drain tick promotes exactly the oldest backlog entry when
\* no alert is active and the backlog is non-empty, changes nothing when an
\* alert is active, and so records become active in their order of arrival.
C10_DrainIsFifo ==
  [][/\ IsPrefix(activated', handed')
     /\ op' = "process_queue" =>
          IF auto_dismiss_timer.active
          THEN scheduler' = scheduler
          ELSE (~is_showing(Sched) /\ notification_queue # << >>) =>
                 /\ ui_current' = Head(notification_queue)
                 /\ widget_event' = Head(notification_queue)
                 /\ notification_queue' = Tail(notification_queue)
                 /\ auto_dismiss_timer'.active]_vars

\* C11: of two records arriving in succession from Idle, the first is shown
\* at once and the second waits in the backlog; the second is not shown
\* while the first is active, a dismissal does not itself promote it, and
\* the first drain tick after the first was dismissed shows it.
C11_SecondWaitsForFirst ==
  [][/\ op' = "check_notifications" =>
          \A i \in ArrivalIdx(calls') : \A j \in ArrivalIdx(calls') :
            (i < j /\ ~calls'[i].cur /\ ~calls'[i].active /\ ~calls'[i].showing
               /\ \A k \in ArrivalIdx(calls') : k <= i \/ k >= j)
              => /\ RecsOf(BlockOf(calls', i), "widget.show_notification")
                      = << calls'[i].rec >>
                 /\ RecsOf(BlockOf(calls', j), "queued") = << calls'[j].rec >>
                 /\ ~Has(BlockOf(calls', j), "widget.show_notification")
                 /\ ~Has(BlockOf(calls', j), "widget.dismissed")
     /\ op' = "check_notifications" =>
          \A j \in ArrivalIdx(calls') :
            (calls'[j].cur /\ calls'[j].active /\ calls'[j].showing)
              => /\ ~Has(BlockOf(calls', j), "widget.show_notification")
                 /\ ~Has(BlockOf(calls', j), "widget.dismissed")
     /\ op' \in {"dismiss", "mousePressEvent", "auto_dismiss",
                  "auto_dismiss_notification"} =>
          /\ widget_event' = widget_event
          /\ notification_queue' = notification_queue
     /\ (op' = "process_queue" /\ notification_queue # << >>
           /\ ~auto_dismiss_timer.active) =>
          /\ widget_event' = Head(notification_queue)
          /\ notification_queue' = Tail(notification_queue)]_vars

\* C12: at the service scheduler, either there is no active record and the
\* dismiss timer is not running, or there is an active record and the
\* dismiss timer is running.
C12_RecordIffTimer ==
  (current_notification # None) <=> dismiss_timer.active

C12_Witness ==
  /\ op \in {"stop_monitoring", "reset_notifications"}
  /\ Has(calls, "hide_notification")
  /\ current_notification = None
  /\ ~dismiss_timer.active

\* C13: a manual dismissal of an alert stops every auto-dismiss timer that
\* was started for it (the widget's and the service's), and a dismiss timer
\* that fires hides only the alert it was started for, never another alert
\* shown afterwards.
C13_DismissalCancelsTimer ==
  [][/\ (op' \in {"dismiss", "mousePressEvent"} /\ Has(calls', "widget.dismissed")
           /\ current_notification = widget_event) =>
          /\ ~auto_dismiss_timer'.active
          /\ ~dismiss_timer'.active
     /\ (op' = "auto_dismiss_notification" /\ Has(calls', "widget.dismissed")) =>
          current_notification = widget_event]_vars

Reported(kind) == \E i \in 1..Len(r_result) : r_result[i] = [id |-> 1, type |-> kind]

\* C14: a scan reports Start for the event exactly when its stored status
\* is not Past and 0 <= start - now <= 60.
C14_StartRule ==
  op = "check_notifications" =>
    (Reported("start") <=>
       (r_status # "past" /\ 0 <= r_start - r_now /\ r_start - r_now <= 60))

C14_Witness ==
  /\ op = "check_notifications"
  /\ Reported("start")
  /\ r_start - r_now = 60

\* C15 as stated: for every warning lead, a scan reports Warning exactly
\* when the stored status is not Past and
\* lead*60 - 60 <= start - now <= lead*60 + 60.
C15_WarningRule ==
  op = "check_notifications" =>
    (Reported("warning") <=>
       (r_status # "past" /\ r_wm * 60 - 60 <= r_start - r_now
          /\ r_start - r_now <= r_wm * 60 + 60))

\* C15 (amended): for every warning lead, a scan reports Warning exactly
\* when the stored status is not Past,
\* lead*60 - 60 <= start - now <= lead*60 + 60, and start - now is not
\* inside the Start window 0..60 (there Start is reported instead).
C15_WarningOutsideStart ==
  op = "check_notifications" =>
    (Reported("warning") <=>
       (r_status # "past" /\ r_wm * 60 - 60 <= r_start - r_now
          /\ r_start - r_now <= r_wm * 60 + 60
          /\ ~(0 <= r_start - r_now /\ r_start - r_now <= 60)))

C15_Witness ==
  /\ op = "check_notifications"
  /\ Reported("warning")
  /\ r_wm = WARNING_MINUTES
  /\ r_start - r_now = 570

\* C16: with a warning lead of at least one minute, an event that is on the
\* Timeline from before its warning window opens has a Warning record
\* handed to the scheduler by the time the window has closed: at least one
\* of the 30-second rule-check ticks falls inside the window.
C16_WarningHanded ==
  (r_wm >= 1 /\ r_start - (r_wm * 60 + 60) > 0
     /\ r_now > r_start - (r_wm * 60 - 60))
    => [id |-> 1, type |-> "warning"] \in Range(r_handed)

C16_Witness ==
  /\ r_wm = WARNING_MINUTES
  /\ r_start = 689
  /\ r_now = 180
  /\ r_handed = << [id |-> 1, type |-> "warning"] >>

RECURSIVE Normalized(_, _, _)
Normalized(cals, g, t) ==
  IF cals = << >> THEN {}
  ELSE (IF CalStatus(g, Head(cals)) = "ok"
        THEN Range(ProcessAll(FetchCalendar(Head(cals)), Head(cals), t))
        ELSE {})
         \cup Normalized(Tail(cals), g, t)

\* C18: after a successful refresh the Timeline is in ascending start
\* order, holds at most MAX_EVENTS_DISPLAY events, all of them normalized
\* by this refresh, and every normalized event left out starts no earlier
\* than every event kept (as many are kept as the maximum allows).
C18_SortedEarliestKept ==
  [][(op' = "refresh_calendar_data" /\ fetch'.service = "ok"
        /\ fetch'.list = "ok" /\ ~FetchLoop(Calendars, fetch', now).aborted)
       => LET all == Normalized(Calendars, fetch', now)
          IN /\ \A i \in 1..Len(events') - 1 :
                  events'[i].start_datetime <= events'[i + 1].start_datetime
             /\ Len(events') <= MAX_EVENTS_DISPLAY
             /\ Range(events') \subseteq all
             /\ Cardinality(Range(events')) = Len(events')
             /\ Len(events') = IF Cardinality(all) < MAX_EVENTS_DISPLAY
                               THEN Cardinality(all) ELSE MAX_EVENTS_DISPLAY
             /\ \A d \in all \ Range(events') : \A e \in Range(events') :
                  e.start_datetime <= d.start_datetime]_vars

C18_Witness ==
  /\ op = "refresh_calendar_data"
  /\ now > 0
  /\ fetch = AllOk
  /\ Len(events) = MAX_EVENTS_DISPLAY
  /\ Cardinality(Normalized(Calendars, fetch, now) \ Range(events)) = 2
  /\ events[1].calendar_name = Calendars[2]
  /\ events[5].calendar_name = Calendars[1]

\* the refresh against the answer g fails as a whole: no service object,
\* or an exception other than HttpError leaves the loop over the calendars
Unreachable(g, t) ==
  \/ g.service # "ok"
  \/ FetchLoop(get_calendar_list(g), g, t).aborted

\* C19: a refresh during which the service cannot be obtained or an
\* unexpected error aborts the fetch returns an empty list, raises nothing
\* and leaves the Timeline's events and its time of last refresh as they
\* were; a successful refresh that follows such a failure replaces the
\* Timeline by the events it normalized and records its own time.
C19_FailedRefreshKeepsTimeline ==
  [][op' = "refresh_calendar_data" =>
       /\ Unreachable(fetch', now)
            => /\ events' = events
               /\ last_update' = last_update
               /\ current_events' = << >>
               /\ ~RefreshResult(fetch').raised
       /\ (current_events = << >> /\ events # << >>
             /\ ~Unreachable(fetch', now) /\ fetch'.list = "ok")
            => /\ last_update' = now
               /\ current_events' = events'
               /\ Range(events') \subseteq Normalized(Calendars, fetch', now)
               /\ Len(events') =
                    IF Cardinality(Normalized(Calendars, fetch', now))
                         < MAX_EVENTS_DISPLAY
                    THEN Cardinality(Normalized(Calendars, fetch', now))
                    ELSE MAX_EVENTS_DISPLAY]_vars

C19_Witness ==
  /\ op = "refresh_calendar_data"
  /\ Unreachable(fetch, now)
  /\ events # << >>
  /\ current_events = << >>
  /\ 0 <= last_update
  /\ last_update < now

\* the raw records the calendars of the answer g return, with their calendar
Fetched(g) ==
  UNION { { [raw |-> FetchCalendar(c)[i], calendar |-> c] :
              i \in 1..Len(FetchCalendar(c)) } :
            c \in { d \in Range(Calendars) : CalStatus(g, d) = "ok" } }

\* C20: in a refresh that is not aborted, a raw record without a start (or
\* that cannot be parsed) contributes nothing, and every other fetched
\* record, of the same calendar and of the others, is still accumulated:
\* the Timeline is the sorted result cut to the maximum, so each
\* well-formed record is on it unless the Timeline is full of events that
\* start no later.
C20_DiscardKeepsBatch ==
  [][(op' = "refresh_calendar_data" /\ ~Unreachable(fetch', now)
        /\ fetch'.list = "ok")
       => \A f \in Fetched(fetch') :
            LET p == _process_event(f.raw, f.calendar, now)
            IN IF f.raw.start_kind \in {"missing", "garbage"}
                  \/ f.raw.end_kind \in {"absent", "garbage"}
               THEN \A k \in 1..Len(events') : events'[k].id # f.raw.id
               ELSE \/ \E k \in 1..Len(events') : events'[k] = p
                    \/ /\ Len(events') = MAX_EVENTS_DISPLAY
                       /\ \A k \in 1..Len(events') :
                            events'[k].start_datetime <= p.start_datetime]_vars

\* a refresh met a record without a start and one whose start cannot be
\* parsed; the record after the first in the same calendar and the records
\* of the other calendar are on the Timeline
C20_Witness ==
  /\ op = "refresh_calendar_data"
  /\ now > 0
  /\ fetch = AllOk
  /\ \E f \in Fetched(fetch) :
       /\ f.raw.start_kind = "missing"
       /\ \A k \in 1..Len(events) : events[k].id # f.raw.id
       /\ \E k \in 1..Len(events) :
            /\ events[k].calendar_name = f.calendar
            /\ events[k].start_datetime > 0
            /\ \E i, j \in 1..Len(RawEvents(f.calendar)) :
                 /\ i < j
                 /\ RawEvents(f.calendar)[i] = f.raw
                 /\ RawEvents(f.calendar)[j].id = events[k].id
       /\ \E k \in 1..Len(events) : events[k].calendar_name # f.calendar
  /\ \E f \in Fetched(fetch) :
       /\ f.raw.start_kind = "garbage"
       /\ \A k \in 1..Len(events) : events[k].id # f.raw.id

\* C21: a raw record with a timed start and no end field is not discarded,
\* and whenever a record with a start that parses carries no timed end
\* (no end field, an end with neither key, a bare date), the event's end is
\* its start plus one hour.
C21_DefaultEnd ==
  (n_event # NotNormalized
     /\ n_raw.start_kind \in {"dateTime", "date"}
     /\ n_raw.end_kind \in {"absent", "empty", "date"})
    => /\ n_event # Discard
       /\ n_event.end_datetime = n_event.start_datetime + DefaultDuration

\* C22: every event the normalizer produces has start <= end, whatever raw
\* record it was given, and a record whose start parses and whose end is
\* timed is never discarded to achieve this.
C22_StartNotAfterEnd ==
  (n_event # NotNormalized /\ n_raw.start_kind \in {"dateTime", "date"}
     /\ n_raw.end_kind \in {"dateTime", "date", "empty"})
    => /\ n_event # Discard
       /\ n_event.start_datetime <= n_event.end_datetime

\* C23: a raw record whose start is a bare date (and whose end, if any, is
\* not an unparseable text) yields an all-day event that starts at local
\* midnight of that date in the target zone, ends one hour later and is
\* labelled "All Day"; an event from a timed start is not all-day.
C23_AllDay ==
  (n_event # NotNormalized /\ n_raw.end_kind # "garbage")
    => /\ n_raw.start_kind = "date"
            => /\ n_event # Discard
               /\ n_event.is_all_day
               /\ n_event.start_datetime \div Day = n_raw.start
               /\ n_event.start_datetime % Day = 0
               /\ n_event.end_datetime
                    = n_event.start_datetime + DefaultDuration
               /\ n_event.formatted_time.kind = "All Day"
       /\ (n_raw.start_kind = "dateTime" /\ n_event # Discard)
            => ~n_event.is_all_day

\* C24: the backlog never holds two records with the same event id and
\* kind, after any sequence of arrivals, drains and dismissals.
C24_BacklogHasNoDuplicates ==
  \A i, j \in 1..Len(notification_queue) :
    i # j => Key(notification_queue[i]) # Key(notification_queue[j])

\* a record arrived while the widget was showing, was not appended, and an
\* equal record is in the backlog
C24_Witness ==
  /\ op = "check_notifications"
  /\ \E i \in ArrivalIdx(calls) :
       /\ calls[i].showing
       /\ InQueue(notification_queue, calls[i].rec)
       /\ \A k \in 1..Len(calls) :
            calls[k].what = "queued" => Key(calls[k].rec) # Key(calls[i].rec)

\* C25: in every reachable state the backlog contains no record whose
\* (event id, kind) pair is that of the active alert: neither the record the
\* service holds as current nor the record the widget has on screen.
C25_BacklogExcludesActive ==
  /\ (visible /\ widget_event # None)
       => ~InQueue(notification_queue, widget_event)
  /\ current_notification # None
       => ~InQueue(notification_queue, current_notification)

\* C26: a stored status goes from current to past only in a status tick
\* that signals the recomputation of the marker position, whatever the
\* interleaving of status ticks, refreshes and widget status updates: no
\* transition from current to past goes unsignalled.
C26_PastIsSignalled ==
  [][\A i \in 1..Len(events), j \in 1..Len(events') :
       (events[i].id = events'[j].id /\ events[i].status = "current"
          /\ events'[j].status = "past")
         => (op' = "update_event_statuses"
               /\ Has(calls', "update_time_marker_position"))]_vars

\* C27: outside a refresh only the status field of Timeline events changes:
\* every step that is not a refresh leaves the Timeline's membership and
\* order and every field of its events other than the status as they were;
\* a status tick and a widget status update also leave the dedup cache and
\* the scheduler unchanged; and a status tick applied again at the same
\* instant gives the statuses it gave the first time.
C27_OnlyStatusMutated ==
  [][/\ (op' # "refresh_calendar_data")
          => (/\ Len(events') = Len(events)
              /\ \A i \in 1..Len(events) :
                   [events'[i] EXCEPT !.status = events[i].status] = events[i]
              /\ last_update' = last_update)
     /\ (op' \in {"update_event_statuses", "update_status"})
          => (/\ shown_notifications' = shown_notifications
              /\ UNCHANGED <<scheduler, promoted, history>>)
     /\ (op' = "update_event_statuses")
          => (Restatus(events', now') = events')]_vars

\* a status tick moved an event from current to past while an alert was
\* active and the dedup cache was not empty
C27_Witness ==
  /\ op = "update_event_statuses"
  /\ Has(calls, "update_time_marker_position")
  /\ \E i \in 1..Len(events) : events[i].status = "past"
  /\ shown_notifications # {}
  /\ current_notification # None

\* C28: the current-event query returns the first Timeline event, in
\* Timeline order, whose stored status is current, and none when no event
\* has that status: its answer agrees with the stored statuses, and so with
\* the event the displayed list takes as current.
C28_CurrentAgreesWithStatus ==
  LET cur == get_current_event(events, now)
      stored == { i \in 1..Len(events) : events[i].status = "current" }
  IN /\ IF stored = {} THEN cur = NoEvent
        ELSE \E i \in stored :
               /\ cur = events[i]
               /\ \A j \in stored : i <= j
     /\ cur = get_current_event_widget(events)

\* the events of the Timeline that start strictly after instant t
Later(t) == { i \in 1..Len(events) : events[i].start_datetime > t }

\* C29: the next-event query returns the first Timeline event whose start
\* is strictly after the instant of the call (an event that starts at that
\* instant is not next), or none; the minutes query returns none exactly
\* when there is no such event, and otherwise the whole minutes from the
\* clock to that start truncated toward zero: never negative, and 0 when
\* less than 60 s remain.
C29_NextAndMinutes ==
  /\ q_next # NotAsked
       => IF Later(q_now) = {} THEN q_next = NoEvent
          ELSE \E i \in Later(q_now) :
                 /\ q_next = events[i]
                 /\ \A j \in Later(q_now) :
                      /\ i <= j
                      /\ events[i].start_datetime <= events[j].start_datetime
  /\ q_minutes # NoMinutes - 1
       => IF Later(q_now) = {} THEN q_minutes = NoMinutes
          ELSE LET first == CHOOSE i \in Later(q_now) :
                              \A j \in Later(q_now) : i <= j
                   left == events[first].start_datetime - q_t2
               IN /\ q_minutes >= 0
                  /\ q_minutes * 60 <= (IF left >= 0 THEN left ELSE 0)
                  /\ left < q_minutes * 60 + 60

\* the query was called at the very start of an event, so the event after
\* it is next, and less than a minute is left by the second clock reading
C29_Witness ==
  /\ q_next # NotAsked /\ q_next # NoEvent
  /\ q_minutes = 0
  /\ \E i \in 1..Len(events) : events[i].start_datetime = q_now
  /\ q_next.start_datetime < q_t2 + 60

\* C30: with the timers and animations firing when due, every record handed
\* to the scheduler gets on screen, also when several records are handed
\* over by one scan: from some point on every handed record has been on
\* screen (a record still in the backlog, or waiting for its first frame,
\* when the clock of the model stops counts as shown).
C30_HandedIsEventuallyShown ==
  <>[](\A i \in 1..Len(handed) :
         \/ handed[i] \in drawn
         \/ /\ now = MaxNow
            /\ \/ InQueue(notification_queue, handed[i])
               \/ visible /\ widget_event = handed[i])

\* the ids of the events of a list, in the order of the list
IdsOf(evs) == [i \in 1..Len(evs) |-> evs[i].id]

\* C31: after every refresh, successful or failed, the list the window
\* displays and status-ticks holds the same events as the Timeline the
\* rule engine scans.
C31_DisplayedIsTimeline ==
  op = "refresh_calendar_data" => IdsOf(current_events) = IdsOf(events)

\* the events of the day window that normalize, of the calendars whose
\* list arrived in the refresh answered by g, without the cap of the fetch
ValidOfDay(g, t) ==
  UNION { Range(ProcessAll(RawEvents(Calendars[n]), Calendars[n], t)) :
            n \in { m \in 1..Len(Calendars) : CalStatus(g, Calendars[m]) = "ok" } }

\* the refresh answered by g went through to the replacement of the Timeline
Replaced(g) ==
  /\ g.service = "ok" /\ g.list = "ok"
  /\ \A n \in 1..Len(Calendars) : CalStatus(g, Calendars[n]) # "error"

\* C32: after a successful refresh the Timeline is the maximum-count
\* earliest-starting events among all the events of the day window that
\* normalize: it holds as many of them as the maximum allows, and no event
\* left out starts before one that is kept.
C32_TimelineIsEarliestOfDay ==
  (op = "refresh_calendar_data" /\ Replaced(fetch))
    => LET V == ValidOfDay(fetch, now)
           T == { e \in V : \E k \in 1..Len(events) : events[k].id = e.id }
       IN /\ Len(events) = Cardinality(T)
          /\ Cardinality(T) = (IF Cardinality(V) < MAX_EVENTS_DISPLAY
                               THEN Cardinality(V) ELSE MAX_EVENTS_DISPLAY)
          /\ \A e \in V \ T : \A k \in T :
                k.start_datetime <= e.start_datetime

\* the session ended by itself in the step: not running, timer inactive,
\* finished emitted
EndsBySelf ==
  /\ ~pomodoro'.running
  /\ ~pomodoro'.timer_active
  /\ \E i \in 1..Len(pomodoro'.emitted) : pomodoro'.emitted[i].sig = "finished"
  /\ pomodoro'.phase = "break"
  /\ pomodoro'.round_index = pomodoro.round_index

\* one step of a session that is neither started anew nor stopped
SessionStep ==
  \/ /\ pomodoro'.running
     /\ pomodoro'.phase = pomodoro.phase
     /\ pomodoro'.round_index = pomodoro.round_index
  \/ /\ pomodoro.phase = "focus"
     /\ pomodoro'.running
     /\ pomodoro'.phase = "break"
     /\ pomodoro'.round_index = pomodoro.round_index
  \/ /\ pomodoro.phase = "break"
     /\ pomodoro.round_index < pomodoro.total_rounds
     /\ pomodoro'.running
     /\ pomodoro'.phase = "focus"
     /\ pomodoro'.round_index = pomodoro.round_index + 1
  \/ /\ pomodoro.phase = "break"
     /\ pomodoro.round_index = pomodoro.total_rounds
     /\ EndsBySelf

\* what a step of the service does to the course of the session
CourseStep ==
  /\ (p_op' = "start")
       => (/\ pomodoro'.running
           /\ pomodoro'.phase = "focus"
           /\ pomodoro'.round_index = 1)
  /\ (pomodoro.running /\ p_op' \notin {"start", "stop"})
       => SessionStep
  /\ (pomodoro.timer_active /\ p_op' = "_on_timeout"
         /\ pomodoro.remaining_seconds <= 1)
       => (pomodoro'.phase # pomodoro.phase \/ EndsBySelf)

\* C33: a started session begins with the focus of round 1; while it is
\* not stopped its phase goes from the focus of a round to the break of the
\* same round and from a break to the focus of the next round, a timeout
\* that brings the countdown to zero makes this move, and after the break
\* of the last round the session stops (not running, timer inactive,
\* finished emitted); with the timer firing while it is active, a running
\* session reaches this end unless it is paused, reset or started anew
\* again and again.
C33_SessionRunsToItsEnd ==
  /\ [][CourseStep]_vars
  /\ \/ []<>(pomodoro.paused)
     \/ []<>(p_op \in {"reset", "start"})
     \/ [](pomodoro.running => <>(~pomodoro.running))

\* the last break of a session of two rounds has run out by timeouts
C33_Witness ==
  /\ p_op = "_on_timeout"
  /\ ~pomodoro.running
  /\ pomodoro.phase = "break"
  /\ pomodoro.round_index = 2
  /\ pomodoro.total_rounds = 2
  /\ pomodoro.remaining_seconds = 0

\* the configured duration of the phase the service is in
PhaseSeconds(P) ==
  IF P.phase = "focus" THEN P.focus_seconds ELSE P.break_seconds

\* C34: after any sequence of operations and timeouts the round is between
\* 1 and the number of rounds, the phase is focus or break, and the
\* countdown is between 0 and the configured duration of that phase.
C34_SessionInRange ==
  /\ 1 <= pomodoro.round_index
  /\ pomodoro.round_index <= pomodoro.total_rounds
  /\ pomodoro.phase \in {"focus", "break"}
  /\ 0 <= pomodoro.remaining_seconds
  /\ pomodoro.remaining_seconds <= PhaseSeconds(pomodoro)

\* the break of the last round was skipped: the round stays the last one
\* and the countdown is at zero
C34_Witness ==
  /\ p_op = "skip"
  /\ ~pomodoro.running
  /\ pomodoro.phase = "break"
  /\ pomodoro.round_index = pomodoro.total_rounds
  /\ pomodoro.total_rounds = 2
  /\ pomodoro.remaining_seconds = 0

\* C35: in every state the one-second timer is active exactly when the
\* session is running and not paused, and a paused session is running.
C35_TimerFollowsSession ==
  /\ pomodoro.timer_active <=> (pomodoro.running /\ ~pomodoro.paused)
  /\ pomodoro.paused => pomodoro.running

\* a phase was skipped while the session was paused: still paused, and the
\* timer still inactive
C35_Witness ==
  /\ p_op = "skip"
  /\ pomodoro.running
  /\ pomodoro.paused
  /\ ~pomodoro.timer_active
  /\ pomodoro.phase = "break"

\* the fields of the service, the signals aside
FieldsOf(P) == [P EXCEPT !.emitted = << >>]

\* skip moves a running session to its next phase with the full duration of
\* that phase, or ends it after the break of the last round
SkipMoves ==
  \/ /\ pomodoro.phase = "focus"
     /\ pomodoro'.running
     /\ pomodoro'.phase = "break"
     /\ pomodoro'.round_index = pomodoro.round_index
     /\ pomodoro'.remaining_seconds = pomodoro'.break_seconds
  \/ /\ pomodoro.phase = "break"
     /\ pomodoro.round_index < pomodoro.total_rounds
     /\ pomodoro'.running
     /\ pomodoro'.phase = "focus"
     /\ pomodoro'.round_index = pomodoro.round_index + 1
     /\ pomodoro'.remaining_seconds = pomodoro'.focus_seconds
  \/ /\ pomodoro.phase = "break"
     /\ pomodoro.round_index >= pomodoro.total_rounds
     /\ EndsBySelf

\* skip on a session that is not running changes nothing and emits nothing
SkipIdle ==
  /\ FieldsOf(pomodoro') = FieldsOf(pomodoro)
  /\ pomodoro'.emitted = << >>

\* C36 as stated: skip on a running session moves to the next phase at once
\* (or ends the session after the last break, finished emitted), paused or
\* not, and leaves the paused flag unchanged; on a session that is not
\* running it changes nothing and emits nothing.
C36_SkipKeepsPaused ==
  [][(p_op' = "skip")
       => IF pomodoro.running
          THEN SkipMoves /\ pomodoro'.paused = pomodoro.paused
          ELSE SkipIdle]_vars

\* C36 amended: the paused flag and the timer are left as they were when
\* the session goes on to a next phase; when skip ends the session the
\* paused flag is cleared with the running flag, the timer is inactive and
\* the countdown is at zero.
C36_SkipKeepsPausedUnlessEnd ==
  [][(p_op' = "skip")
       => IF pomodoro.running
          THEN /\ SkipMoves
               /\ IF pomodoro'.running
                  THEN /\ pomodoro'.paused = pomodoro.paused
                       /\ pomodoro'.timer_active = pomodoro.timer_active
                  ELSE /\ ~pomodoro'.paused
                       /\ pomodoro'.remaining_seconds = 0
          ELSE SkipIdle]_vars

\* the break of round 1 was skipped while the session was paused: the focus
\* of round 2 has its full duration and the session is still paused
C36_Witness ==
  /\ p_op = "skip"
  /\ pomodoro.running
  /\ pomodoro.paused
  /\ ~pomodoro.timer_active
  /\ pomodoro.phase = "focus"
  /\ pomodoro.round_index = 2
  /\ pomodoro.remaining_seconds = pomodoro.focus_seconds
  /\ Len(pomodoro.emitted) = 2

\* C37: reset on a running session sets the countdown to the full
\* configured duration of the current phase and leaves the phase, the
\* round, the number of rounds, the running and paused flags and the timer
\* as they were; on a session that is not running it changes nothing and
\* emits nothing.
C37_ResetRestoresCountdown ==
  [][(p_op' = "reset")
       => IF pomodoro.running
          THEN /\ pomodoro'.remaining_seconds = PhaseSeconds(pomodoro)
               /\ FieldsOf(pomodoro') =
                    [FieldsOf(pomodoro) EXCEPT
                       !.remaining_seconds = PhaseSeconds(pomodoro)]
          ELSE /\ FieldsOf(pomodoro') = FieldsOf(pomodoro)
               /\ pomodoro'.emitted = << >>]_vars

\* a break that had been running (its countdown could only be below the
\* full duration or equal to it) was reset: the countdown is the full
\* break, not the full focus
C37_Witness ==
  /\ p_op = "reset"
  /\ pomodoro.running
  /\ pomodoro.phase = "break"
  /\ pomodoro.remaining_seconds = pomodoro.break_seconds
  /\ pomodoro.break_seconds # pomodoro.focus_seconds
  /\ Len(pomodoro.emitted) = 1

====
